---- MODULE Spec2Model ----
(***************************************************************************)
(* useForm: the validation-trigger state machine of the form composable.   *)
(*                                                                         *)
(* Two iterations of useForm are modelled side by side, selected by the    *)
(* variable `variant`, which never changes during a behaviour:             *)
(*   "form"  src/composables/form.ts, lines 298-694 (FieldMeta has the     *)
(*           flag `validated`; handlers take DOM events; a dry run is      *)
(*           issued for every field at construction when mode = eager)     *)
(*   "part"  src/unnamed/part_001 (no `validated` flag; setFieldValue and  *)
(*           setFormValues mark dirty and touched; validateOnMount and     *)
(*           dryValidateOnMount options)                                   *)
(*                                                                         *)
(* Asynchrony.  A handler runs to its first `await` or to its end in one   *)
(* step.  `nextTick(cb)` appends cb to the FIFO queue `ticks`; RunTick     *)
(* runs the head callback.  `await safeParseAsync(x)` reads x when it is   *)
(* called and resolves later: the call puts a task holding the snapshot    *)
(* into the bag `inflight`, and a Complete* step runs the code after the   *)
(* await.  In-flight tasks complete in any order.                          *)
(***************************************************************************)
EXTENDS Naturals, Sequences, FiniteSets, Bags, TLC

VARIABLES
  variant,             \* which iteration of useForm runs
  mode,                \* option `mode`
  modeAfterSubmit,     \* option `modeAfterSubmit`
  validateOnMount,     \* option `validateOnMount` (part)
  dryValidateOnMount,  \* option `dryValidateOnMount` (part)
  initialValues,       \* option `initialValues` (Unset: key not supplied)
  values,              \* reactive values
  fieldMeta,           \* reactive fieldMeta / fieldsMeta
  errors,              \* errors.value: a map whose keys are a subset of Fields
  submitCount,         \* useCounter(0)
  isSubmitting,        \* ref(false)
  isValidating,        \* ref(false)
  ticks,               \* nextTick callbacks not yet run, oldest first
  inflight,            \* validations awaiting safeParseAsync
  returned,            \* what the validation call that completed last resolved with
  outcomes,            \* how many submits ended in onValid, onInvalid, no callback
  callback,            \* the submit callback invoked last, with its argument
  lastCheck,           \* history, per field: how the validation covering it that
                       \* completed last went, or that setFieldError came after it
  faults,              \* history: exceptions that escaped a call so far
  afterReset,          \* history: reset was the last call made from outside
  calls,               \* number of calls made from outside so far
  \* useValidation (src/composables/validation.ts), a composable of its own
  optsMode,            \* opts.mode
  data,                \* toValue(data), the object under validation
  isValid,             \* isValid.value
  validationErrors,    \* errors.value: null, or the issues grouped by path
  unwatch,             \* whether the data watcher has been created
  watchJob,            \* the watcher callback is queued and has not run yet
  validating,          \* validate() calls awaiting safeParseAsync
  validationCalls      \* calls made to useValidation from outside so far

\* the state of useForm
formVars == <<variant, mode, modeAfterSubmit, validateOnMount, dryValidateOnMount,
              initialValues, values, fieldMeta, errors, submitCount, isSubmitting,
              isValidating, ticks, inflight, returned, outcomes, callback,
              lastCheck, faults, afterReset, calls>>

\* the state of useValidation
validationVars == <<optsMode, data, isValid, validationErrors, unwatch, watchJob,
                    validating, validationCalls>>

vars == <<formVars, validationVars>>

config == <<variant, mode, modeAfterSubmit, validateOnMount, dryValidateOnMount,
            initialValues>>

(***************************************************************************)
(* Bounds                                                                  *)
(***************************************************************************)
\* calls made from outside (events and programmatic calls) in one behaviour
MaxCalls == 2

\* calls made to useValidation from outside in one behaviour
MaxValidationCalls == 3

(***************************************************************************)
(* Schema and option domains                                               *)
(***************************************************************************)
Variants == {"form", "part"}

Modes == {"aggressive", "touch", "eager", "smartLazy", "lazy", "submit"}

ModesAfterSubmit == {"input", "blur", "submit"}

\* two of the four fields of the schema of MyForm
Fields == {"name", "age"}

\* the value `undefined`
Unset == "undefined"

\* values a field is given in the model: one that fails, one that passes
FieldValues(f) == IF f = "name" THEN {"", "bob"} ELSE {"7", "24"}

\* the issue messages of safeParse on one field, in zod's order
\*   name: z.string().min(1).min(3).max(50)    age: z.number().min(18).max(99)
Issues(f, v) ==
  CASE v = Unset -> <<"Required">>
    [] f = "name" /\ v = ""  -> <<"Min1", "Min3">>
    [] f = "age" /\ v = "7"  -> <<"Min18">>
    [] OTHER -> <<>>

\* the message a caller injects with setFieldError
ServerError == "Server"

\* the initialValues the forms are constructed with
InitialValueSets == { [f \in Fields |-> IF f = "age" THEN "24" ELSE Unset] }

\* a field name that is not a key of the schema
UnknownName == "nope"

\* the partial objects setFormValues is called with
PartialValueSets == { [f \in {"age"} |-> "7"], [f \in {"name"} |-> "bob"] }

(***************************************************************************)
(* Derived state                                                           *)
(***************************************************************************)
isSubmitted == submitCount > 0

\* { ...defaultValues, ...initialValues }
SeedValues == [f \in Fields |-> initialValues[f]]

InitialMeta ==
  [f \in Fields |-> [touched |-> FALSE, dirty |-> FALSE, invalid |-> FALSE,
                     validated |-> FALSE]]

\* faulty: the form counts as invalid only when every field is invalid
formMeta_EveryInvalid ==
  IF variant = "form"
  THEN [touched |-> \E f \in Fields : fieldMeta[f].touched,
        dirty |-> \E f \in Fields : fieldMeta[f].dirty,
        invalid |-> \A f \in Fields : fieldMeta[f].invalid,
        anyValidated |-> \E f \in Fields : fieldMeta[f].validated,
        validated |-> \A f \in Fields : fieldMeta[f].validated]
  ELSE [touched |-> \E f \in Fields : fieldMeta[f].touched,
        dirty |-> \E f \in Fields : fieldMeta[f].dirty,
        invalid |-> \A f \in Fields : fieldMeta[f].invalid]

\* the computed formMeta: five flags in form.ts, three in part_001
formMeta ==
  IF variant = "form"
  THEN [touched |-> \E f \in Fields : fieldMeta[f].touched,
        dirty |-> \E f \in Fields : fieldMeta[f].dirty,
        invalid |-> \E f \in Fields : fieldMeta[f].invalid,
        anyValidated |-> \E f \in Fields : fieldMeta[f].validated,
        validated |-> \A f \in Fields : fieldMeta[f].validated]
  ELSE [touched |-> \E f \in Fields : fieldMeta[f].touched,
        dirty |-> \E f \in Fields : fieldMeta[f].dirty,
        invalid |-> \E f \in Fields : fieldMeta[f].invalid]

NoErrors == [f \in {} |-> Unset]

\* e[f] of an errors object e
ErrorIn(e, f) == IF f \in DOMAIN e THEN e[f] ELSE Unset

\* errors.value[f]
ErrorOf(f) == ErrorIn(errors, f)

\* faulty: the spread comes last, { [f]: m, ...errors.value }, so an entry
\* that exists is never overwritten
WithError_KeepsExisting(f, m) ==
  [g \in (DOMAIN errors) \cup {f} |-> IF g \in DOMAIN errors THEN errors[g] ELSE m]

\* { ...errors.value, [f]: m }
WithError(f, m) ==
  [g \in (DOMAIN errors) \cup {f} |-> IF g = f THEN m ELSE errors[g]]

(***************************************************************************)
(* Tasks                                                                   *)
(***************************************************************************)
NoField == "-"

\* faulty: the value is taken from the construction seed, not read when called
FieldSnap_Seed(f) == [g \in Fields |-> IF g = f THEN initialValues[g] ELSE Unset]

\* what safeParseAsync({ [f]: values[f] }) reads when it is called
FieldSnap(f) == [g \in Fields |-> IF g = f THEN values[g] ELSE Unset]

Task(k, f, s, cb) == [kind |-> k, field |-> f, snap |-> s, cb |-> cb]

Start(t) == inflight (+) SetToBag({t})

Finish(t) == inflight (-) SetToBag({t})

Pending(k) == {t \in BagToSet(inflight) : t.kind = k}

\* submits whose validateForm has not completed
SubmitsInFlight ==
  BagCardinality([t \in Pending("submit") |-> CopiesIn(t, inflight)])

\* faulty: dryValidateOnMount takes precedence over validateOnMount
MountTasks_DryFirst(v, m, vom, dvom, seed) ==
  IF v = "part"
  THEN IF dvom
       THEN SetToBag({Task("mountdry", f,
                           [g \in Fields |-> IF g = f THEN seed[g] ELSE Unset],
                           FALSE) : f \in Fields})
       ELSE IF vom THEN SetToBag({Task("form", NoField, seed, FALSE)})
            ELSE EmptyBag
  ELSE IF m = "eager"
       THEN SetToBag({Task("mountdry", f,
                           [g \in Fields |-> IF g = f THEN seed[g] ELSE Unset],
                           FALSE) : f \in Fields})
       ELSE EmptyBag

\* the tasks construction leaves in flight
MountTasks(v, m, vom, dvom, seed) ==
  IF v = "part"
  THEN IF vom THEN SetToBag({Task("form", NoField, seed, FALSE)})
       ELSE IF dvom
            THEN SetToBag({Task("mountdry", f,
                                [g \in Fields |-> IF g = f THEN seed[g] ELSE Unset],
                                FALSE) : f \in Fields})
            ELSE EmptyBag
  ELSE IF m = "eager"
       THEN SetToBag({Task("mountdry", f,
                           [g \in Fields |-> IF g = f THEN seed[g] ELSE Unset],
                           FALSE) : f \in Fields})
       ELSE EmptyBag

(***************************************************************************)
(* Init: the state when useForm returns                                    *)
(***************************************************************************)
\* errors.value of useValidation: null, or groupBy(issues, 'path')
NullErrors == [isNull |-> TRUE]

\* useValidation constructed in lazy mode on passing data and never called
ValidationIdle ==
  /\ optsMode = "lazy"
  /\ data = [name |-> "bob", age |-> "24"]
  /\ isValid = TRUE
  /\ validationErrors = NullErrors
  /\ unwatch = FALSE
  /\ watchJob = FALSE
  /\ validating = EmptyBag
  /\ validationCalls = 0

Init ==
  /\ ValidationIdle
  /\ variant \in Variants
  /\ mode \in Modes
  /\ modeAfterSubmit \in ModesAfterSubmit
  /\ validateOnMount \in (IF variant = "part" THEN BOOLEAN ELSE {FALSE})
  /\ dryValidateOnMount \in (IF variant = "part" THEN BOOLEAN ELSE {FALSE})
  /\ initialValues \in InitialValueSets
  /\ values = SeedValues
  /\ fieldMeta = InitialMeta
  /\ errors = NoErrors
  /\ submitCount = 0
  /\ isSubmitting = FALSE
  /\ isValidating = FALSE
  /\ ticks = <<>>
  /\ inflight = MountTasks(variant, mode, validateOnMount, dryValidateOnMount,
                           SeedValues)
  /\ returned = [call |-> "none"]
  /\ outcomes = [onValid |-> 0, onInvalid |-> 0, none |-> 0]
  /\ callback = [fn |-> "none"]
  /\ lastCheck = [f \in Fields |-> "none"]
  /\ faults = 0
  /\ afterReset = FALSE
  /\ calls = 0

(***************************************************************************)
(* Trigger policy: what a handler hands to nextTick                        *)
(*   "validate"  () => validateField(field)                                *)
(*   "dry"       the eager dry-run callback                                *)
(*   "none"      nothing is scheduled                                      *)
(***************************************************************************)
InputAfterSubmit == IF modeAfterSubmit = "input" THEN "validate" ELSE "none"

\* faulty: validates on every input, touched or not
InputTouch_Always(f) == "validate"

InputTouch(f) == IF fieldMeta[f].touched THEN "validate" ELSE "none"

\* faulty: no dry run, an untouched field is validated for real
InputEager_NoDryRun(f) == "validate"

InputEager(f) ==
  IF fieldMeta[f].touched \/ (variant = "form" /\ fieldMeta[f].validated)
  THEN "validate"
  ELSE "dry"

\* faulty: keyed on touched instead of invalid
InputSmartLazy_Touched(f) == IF fieldMeta[f].touched THEN "validate" ELSE "none"

InputSmartLazy(f) == IF fieldMeta[f].invalid THEN "validate" ELSE "none"

InputBeforeSubmit(f) ==
  CASE mode = "aggressive" -> "validate"
    [] mode = "touch"      -> InputTouch(f)
    [] mode = "eager"      -> InputEager(f)
    [] mode = "smartLazy"  -> InputSmartLazy(f)
    [] mode = "lazy"       -> "none"
    [] mode = "submit"     -> "none"

\* faulty: the pre-submit table stays in force after a submit
InputTrigger_IgnoresSubmit(f) == InputBeforeSubmit(f)

InputTrigger(f) == IF isSubmitted THEN InputAfterSubmit ELSE InputBeforeSubmit(f)

BlurAfterSubmit == IF modeAfterSubmit = "blur" THEN "validate" ELSE "none"

\* faulty: blur validates in submit mode too
BlurBeforeSubmit_Always == "validate"

\* faulty: blur does not validate in lazy mode
BlurBeforeSubmit_NotLazy == IF mode \in {"submit", "lazy"} THEN "none" ELSE "validate"

BlurBeforeSubmit == IF mode = "submit" THEN "none" ELSE "validate"

BlurTrigger == IF isSubmitted THEN BlurAfterSubmit ELSE BlurBeforeSubmit

Tick(k, f) == [kind |-> k, field |-> f]

\* nextTick(cb), or nothing
Schedule(k, f) == IF k = "none" THEN ticks ELSE Append(ticks, Tick(k, f))

(***************************************************************************)
(* Validation engine: the code after each await                            *)
(***************************************************************************)
\* faulty: validateField records the result but not that the field was validated
ValidateFieldMeta_NoValidated(f, iss) ==
  [fieldMeta EXCEPT ![f].invalid = (iss # <<>>)]

\* faulty: validateField rebuilds the field's meta and loses touched
ValidateFieldMeta_ClearsTouched(f, iss) ==
  [fieldMeta EXCEPT ![f].invalid = (iss # <<>>),
                    ![f].touched = FALSE,
                    ![f].validated = IF variant = "form" THEN TRUE ELSE @]

\* validateField: fieldMeta[field].invalid = !parseRes.success (and validated)
ValidateFieldMeta(f, iss) ==
  [fieldMeta EXCEPT ![f].invalid = (iss # <<>>),
                    ![f].validated = IF variant = "form" THEN TRUE ELSE @]

\* faulty: a passing validation leaves the field's old error in place
ValidateFieldErrors_KeepsOld(f, iss) ==
  IF iss = <<>> THEN errors ELSE WithError(f, Head(iss))

\* validateField: errors.value = { ...errors.value, [field]: undefined | firstError }
ValidateFieldErrors(f, iss) ==
  WithError(f, IF iss = <<>> THEN Unset ELSE Head(iss))

\* history: whether the validation of snapshot snap found field f passing
Checked(f, snap) == IF Issues(f, snap[f]) = <<>> THEN "passed" ELSE "failed"

\* validateField: the object it returns
ValidateFieldResult(iss) ==
  IF iss = <<>>
  THEN [valid |-> TRUE]
  ELSE [valid |-> FALSE, error |-> Head(iss), errors |-> iss]

\* faulty: the dry run writes errors and invalid as validateField does
ValidateFieldDryRun_Writes(t) ==
  [valid |-> Issues(t.field, t.snap[t.field]) = <<>>,
   errors |-> ValidateFieldErrors(t.field, Issues(t.field, t.snap[t.field])),
   fieldMeta |-> ValidateFieldMeta(t.field, Issues(t.field, t.snap[t.field]))]

\* validateFieldDryRun after its await: the boolean it resolves with, and
\* errors and fieldMeta as it leaves them (it writes neither)
ValidateFieldDryRun(t) ==
  [valid |-> Issues(t.field, t.snap[t.field]) = <<>>,
   errors |-> errors,
   fieldMeta |-> fieldMeta]

\* parseRes.error.formErrors.fieldErrors: the fields with issues
FieldErrors(snap) ==
  [f \in {g \in Fields : Issues(g, snap[g]) # <<>>} |-> Issues(f, snap[f])]

\* faulty: validateForm flips touched instead of setting it
ValidateFormMeta_Toggles ==
  [f \in Fields |->
     [fieldMeta[f] EXCEPT !.touched = ~@,
                          !.validated = IF variant = "form" THEN TRUE ELSE @]]

\* validateForm: every field touched (and validated)
ValidateFormMeta ==
  [f \in Fields |->
     [fieldMeta[f] EXCEPT !.touched = TRUE,
                          !.validated = IF variant = "form" THEN TRUE ELSE @]]

\* faulty: no clearErrors(), the entries of fields that passed stay
ValidateFormErrors_Merges(snap) ==
  [f \in (DOMAIN errors) \cup (DOMAIN FieldErrors(snap)) |->
     IF f \in DOMAIN FieldErrors(snap) THEN Head(FieldErrors(snap)[f])
     ELSE errors[f]]

\* validateForm: clearErrors(), then errors.value[key] = firstError per failing key
ValidateFormErrors(snap) ==
  [f \in DOMAIN FieldErrors(snap) |-> Head(FieldErrors(snap)[f])]

\* faulty: results has entries for the failing fields only
ValidateFormResults_OnlyFailing(snap) ==
  [f \in DOMAIN FieldErrors(snap) |->
     [errors |-> FieldErrors(snap)[f], valid |-> (FieldErrors(snap)[f] = <<>>)]]

\* validateForm: results
ValidateFormResults(snap) ==
  [f \in Fields |->
     IF f \in DOMAIN FieldErrors(snap)
     THEN [errors |-> FieldErrors(snap)[f], valid |-> (FieldErrors(snap)[f] = <<>>)]
     ELSE [errors |-> <<>>, valid |-> TRUE]]

\* validateForm: the object it returns (its `errors` is errors.value itself)
ValidateFormResult(snap) ==
  [valid |-> (DOMAIN FieldErrors(snap) = {}), results |-> ValidateFormResults(snap)]

(***************************************************************************)
(* Interaction events                                                      *)
(***************************************************************************)
\* v-model of a field (fields: toRefs(values)) writes the value
ModelWrite(f, v) ==
  /\ calls < MaxCalls
  /\ values' = [values EXCEPT ![f] = v]
  /\ calls' = calls + 1
  /\ afterReset' = FALSE
  /\ UNCHANGED <<validationVars, config, faults, lastCheck, fieldMeta, errors, submitCount, isSubmitting,
                 isValidating, ticks, inflight, returned, outcomes, callback>>

\* fieldHandlers.input
Input(f) ==
  /\ calls < MaxCalls
  /\ fieldMeta' = [fieldMeta EXCEPT ![f].dirty = TRUE]
  /\ ticks' = Schedule(InputTrigger(f), f)
  /\ calls' = calls + 1
  /\ afterReset' = FALSE
  /\ UNCHANGED <<validationVars, config, faults, lastCheck, values, errors, submitCount, isSubmitting,
                 isValidating, inflight, returned, outcomes, callback>>

\* fieldHandlers.blur
Blur(f) ==
  /\ calls < MaxCalls
  /\ fieldMeta' = [fieldMeta EXCEPT ![f].touched = TRUE]
  /\ ticks' = Schedule(BlurTrigger, f)
  /\ calls' = calls + 1
  /\ afterReset' = FALSE
  /\ UNCHANGED <<validationVars, config, faults, lastCheck, values, errors, submitCount, isSubmitting,
                 isValidating, inflight, returned, outcomes, callback>>

\* isValidFieldName (form.ts)
isValidFieldName(name) == name \in Fields

\* fieldHandlers.input for a name that is not in the schema: form.ts returns
\* at once; part_001 reads fieldMeta[field], which is undefined, and the write
\* of its dirty flag throws a TypeError
InputUnknown ==
  /\ calls < MaxCalls
  /\ faults' = IF variant = "form" /\ ~isValidFieldName(UnknownName)
               THEN faults ELSE faults + 1
  /\ calls' = calls + 1
  /\ afterReset' = FALSE
  /\ UNCHANGED <<validationVars, config, lastCheck, values, fieldMeta, errors, submitCount,
                 isSubmitting, isValidating, ticks, inflight, returned,
                 outcomes, callback>>

\* fieldHandlers.blur for a name that is not in the schema: form.ts returns
\* at once; in part_001 setFieldTouched throws a TypeError
BlurUnknown ==
  /\ calls < MaxCalls
  /\ faults' = IF variant = "form" /\ ~isValidFieldName(UnknownName)
               THEN faults ELSE faults + 1
  /\ calls' = calls + 1
  /\ afterReset' = FALSE
  /\ UNCHANGED <<validationVars, config, lastCheck, values, fieldMeta, errors, submitCount,
                 isSubmitting, isValidating, ticks, inflight, returned,
                 outcomes, callback>>

(***************************************************************************)
(* Programmatic calls                                                      *)
(***************************************************************************)
\* faulty: every field is marked, whatever S
MarkSet_All(S) ==
  IF variant = "part"
  THEN [f \in Fields |-> [fieldMeta[f] EXCEPT !.dirty = TRUE, !.touched = TRUE]]
  ELSE fieldMeta

\* setFieldTouched and dirty = true for the fields of S (part), nothing (form)
MarkSet(S) ==
  IF variant = "part"
  THEN [f \in Fields |->
          IF f \in S THEN [fieldMeta[f] EXCEPT !.dirty = TRUE, !.touched = TRUE]
          ELSE fieldMeta[f]]
  ELSE fieldMeta

SetFieldValue(f, v) ==
  /\ calls < MaxCalls
  /\ values' = [values EXCEPT ![f] = v]
  /\ fieldMeta' = MarkSet({f})
  /\ calls' = calls + 1
  /\ afterReset' = FALSE
  /\ UNCHANGED <<validationVars, config, faults, lastCheck, errors, submitCount, isSubmitting, isValidating,
                 ticks, inflight, returned, outcomes, callback>>

\* faulty: only the supplied fields are marked
SetFormValues_MarksSupplied(p) ==
  /\ calls < MaxCalls
  /\ values' = [f \in Fields |-> IF f \in DOMAIN p THEN p[f] ELSE values[f]]
  /\ fieldMeta' = MarkSet(DOMAIN p)
  /\ calls' = calls + 1
  /\ afterReset' = FALSE
  /\ UNCHANGED <<validationVars, config, faults, lastCheck, errors, submitCount, isSubmitting, isValidating,
                 ticks, inflight, returned, outcomes, callback>>

SetFormValues(p) ==
  /\ calls < MaxCalls
  /\ values' = [f \in Fields |-> IF f \in DOMAIN p THEN p[f] ELSE values[f]]
  /\ fieldMeta' = MarkSet(Fields)
  /\ calls' = calls + 1
  /\ afterReset' = FALSE
  /\ UNCHANGED <<validationVars, config, faults, lastCheck, errors, submitCount, isSubmitting, isValidating,
                 ticks, inflight, returned, outcomes, callback>>

\* faulty: an injected error also marks the field invalid
SetFieldError_MarksInvalid(f, m) ==
  /\ calls < MaxCalls
  /\ errors' = WithError(f, m)
  /\ fieldMeta' = [fieldMeta EXCEPT ![f].invalid = TRUE]
  /\ lastCheck' = [lastCheck EXCEPT ![f] = "injected"]
  /\ calls' = calls + 1
  /\ afterReset' = FALSE
  /\ UNCHANGED <<validationVars, config, faults, values, submitCount, isSubmitting,
                 isValidating, ticks, inflight, returned, outcomes, callback>>

SetFieldError(f, m) ==
  /\ calls < MaxCalls
  /\ errors' = WithError(f, m)
  /\ calls' = calls + 1
  /\ afterReset' = FALSE
  /\ lastCheck' = [lastCheck EXCEPT ![f] = "injected"]
  /\ UNCHANGED <<validationVars, config, faults, values, fieldMeta, submitCount, isSubmitting,
                 isValidating, ticks, inflight, returned, outcomes, callback>>

\* setFieldError for a name that is not in the schema: the entry is written
SetFieldErrorUnknown(m) ==
  /\ calls < MaxCalls
  /\ errors' = WithError(UnknownName, m)
  /\ calls' = calls + 1
  /\ afterReset' = FALSE
  /\ UNCHANGED <<validationVars, config, faults, lastCheck, values, fieldMeta, submitCount,
                 isSubmitting, isValidating, ticks, inflight, returned,
                 outcomes, callback>>

SetFieldTouched(f, b) ==
  /\ calls < MaxCalls
  /\ fieldMeta' = [fieldMeta EXCEPT ![f].touched = b]
  /\ calls' = calls + 1
  /\ afterReset' = FALSE
  /\ UNCHANGED <<validationVars, config, faults, lastCheck, values, errors, submitCount, isSubmitting,
                 isValidating, ticks, inflight, returned, outcomes, callback>>

\* faulty: reset also zeroes the submit counter
Reset_ZeroesCount ==
  /\ calls < MaxCalls
  /\ values' = SeedValues
  /\ errors' = NoErrors
  /\ submitCount' = 0
  /\ calls' = calls + 1
  /\ afterReset' = TRUE
  /\ UNCHANGED <<validationVars, config, faults, lastCheck, fieldMeta, isSubmitting, isValidating,
                 ticks, inflight, returned, outcomes, callback>>

\* reset
Reset ==
  /\ calls < MaxCalls
  /\ values' = SeedValues
  /\ errors' = NoErrors
  /\ calls' = calls + 1
  /\ afterReset' = TRUE
  /\ UNCHANGED <<validationVars, config, faults, lastCheck, fieldMeta, submitCount, isSubmitting, isValidating,
                 ticks, inflight, returned, outcomes, callback>>

\* validateField(f), up to its await
ValidateField(f) ==
  /\ calls < MaxCalls
  /\ inflight' = Start(Task("field", f, FieldSnap(f), FALSE))
  /\ calls' = calls + 1
  /\ afterReset' = FALSE
  /\ UNCHANGED <<validationVars, config, faults, lastCheck, values, fieldMeta, errors, submitCount, isSubmitting,
                 isValidating, ticks, returned, outcomes, callback>>

\* validateForm(), up to its await
ValidateForm ==
  /\ calls < MaxCalls
  /\ inflight' = Start(Task("form", NoField, values, FALSE))
  /\ calls' = calls + 1
  /\ afterReset' = FALSE
  /\ UNCHANGED <<validationVars, config, faults, lastCheck, values, fieldMeta, errors, submitCount, isSubmitting,
                 isValidating, ticks, returned, outcomes, callback>>

\* the callable handleSubmit returns, up to `await validateForm()`;
\* cb: whether onInvalid was supplied
Submit(cb) ==
  /\ calls < MaxCalls
  /\ submitCount' = submitCount + 1
  /\ isValidating' = TRUE
  /\ inflight' = Start(Task("submit", NoField, values, cb))
  /\ calls' = calls + 1
  /\ afterReset' = FALSE
  /\ UNCHANGED <<validationVars, config, faults, lastCheck, values, fieldMeta, errors, isSubmitting, ticks,
                 returned, outcomes, callback>>

(***************************************************************************)
(* Deferred steps                                                          *)
(***************************************************************************)
\* the oldest nextTick callback runs, up to its await
RunTick ==
  /\ ticks # <<>>
  /\ LET t == Head(ticks)
     IN  inflight' = Start(Task(IF t.kind = "validate" THEN "field" ELSE "dry",
                                t.field, FieldSnap(t.field), FALSE))
  /\ ticks' = Tail(ticks)
  /\ UNCHANGED <<validationVars, config, faults, afterReset, lastCheck, values, fieldMeta, errors, submitCount, isSubmitting,
                 isValidating, returned, outcomes, callback, calls>>

\* validateField after its await
CompleteField(t) ==
  /\ t \in Pending("field")
  /\ LET iss == Issues(t.field, t.snap[t.field])
     IN  /\ fieldMeta' = ValidateFieldMeta(t.field, iss)
         /\ errors' = ValidateFieldErrors(t.field, iss)
         /\ returned' = [call |-> "validateField", field |-> t.field,
                         result |-> ValidateFieldResult(iss)]
  /\ inflight' = Finish(t)
  /\ lastCheck' = [lastCheck EXCEPT ![t.field] = Checked(t.field, t.snap)]
  /\ UNCHANGED <<validationVars, config, faults, afterReset, values, submitCount, isSubmitting, isValidating,
                 ticks, outcomes, callback, calls>>

\* faulty: a passing dry run does not arm the field
DryRunMeta_NoArm(f) == fieldMeta

\* the eager dry-run callback after `await validateFieldDryRun(field)`
DryRunMeta(f) ==
  IF variant = "part"
  THEN [fieldMeta EXCEPT ![f].touched = TRUE]
  ELSE [fieldMeta EXCEPT ![f].validated = TRUE]

CompleteDryRun(t) ==
  /\ t \in Pending("dry")
  /\ errors' = ValidateFieldDryRun(t).errors
  /\ IF ValidateFieldDryRun(t).valid
     THEN /\ fieldMeta' = DryRunMeta(t.field)
          /\ IF variant = "part"
             THEN /\ ticks' = Schedule("validate", t.field)
                  /\ inflight' = Finish(t)
             ELSE /\ ticks' = ticks
                  /\ inflight' = Finish(t) (+)
                       SetToBag({Task("field", t.field, FieldSnap(t.field), FALSE)})
     ELSE /\ fieldMeta' = ValidateFieldDryRun(t).fieldMeta
          /\ inflight' = Finish(t)
          /\ ticks' = ticks
  /\ UNCHANGED <<validationVars, config, faults, afterReset, lastCheck, values, submitCount, isSubmitting,
                 isValidating, returned, outcomes, callback, calls>>

\* the construction-time dry run of one field after its await
MountDryRunMeta(f) ==
  IF variant = "part"
  THEN [fieldMeta EXCEPT ![f].invalid = FALSE, ![f].touched = TRUE]
  ELSE [fieldMeta EXCEPT ![f].validated = TRUE]

CompleteMountDryRun(t) ==
  /\ t \in Pending("mountdry")
  /\ errors' = ValidateFieldDryRun(t).errors
  /\ fieldMeta' = IF ValidateFieldDryRun(t).valid
                  THEN MountDryRunMeta(t.field)
                  ELSE ValidateFieldDryRun(t).fieldMeta
  /\ inflight' = Finish(t)
  /\ UNCHANGED <<validationVars, config, faults, afterReset, lastCheck, values, submitCount, isSubmitting,
                 isValidating, ticks, returned, outcomes, callback, calls>>

\* validateForm after its await
CompleteForm(t) ==
  /\ t \in Pending("form")
  /\ fieldMeta' = ValidateFormMeta
  /\ errors' = ValidateFormErrors(t.snap)
  /\ returned' = [call |-> "validateForm", result |-> ValidateFormResult(t.snap)]
  /\ inflight' = Finish(t)
  /\ lastCheck' = [f \in Fields |-> Checked(f, t.snap)]
  /\ UNCHANGED <<validationVars, config, faults, afterReset, values, submitCount, isSubmitting, isValidating,
                 ticks, outcomes, callback, calls>>

\* faulty: onValid whatever the result
SubmitOutcome_IgnoresResult(valid, cb) == "onValid"

\* which callback the submit callable invokes
SubmitOutcome(valid, cb) ==
  IF valid THEN "onValid" ELSE IF cb THEN "onInvalid" ELSE "none"

\* handleSubmit: set(isSubmitting, ...) after the callback
SubmitDone == FALSE

\* validateForm after its await, then the rest of the submit callable.  The
\* callable resumes in the microtask after validateForm returns; the steps that
\* can run in between (RunTick, Complete*) write nothing it reads.
CompleteSubmit(t) ==
  /\ t \in Pending("submit")
  /\ fieldMeta' = ValidateFormMeta
  /\ errors' = ValidateFormErrors(t.snap)
  /\ returned' = [call |-> "validateForm", result |-> ValidateFormResult(t.snap)]
  /\ isValidating' = FALSE
  /\ LET fn == SubmitOutcome(ValidateFormResult(t.snap).valid, t.cb)
     IN  /\ outcomes' = [outcomes EXCEPT ![fn] = @ + 1]
         /\ callback' = CASE fn = "onValid" -> [fn |-> fn, arg |-> values]
                          [] fn = "onInvalid" ->
                               [fn |-> fn, arg |-> ValidateFormResults(t.snap)]
                          [] OTHER -> callback
  /\ isSubmitting' = SubmitDone
  /\ inflight' = Finish(t)
  /\ lastCheck' = [f \in Fields |-> Checked(f, t.snap)]
  /\ UNCHANGED <<validationVars, config, faults, afterReset, values, submitCount, ticks, calls>>

(***************************************************************************)
(* Specification                                                           *)
(***************************************************************************)
\* every step but the programmatic validateField, validateForm and setFieldError
EventNext ==
  \/ \E f \in Fields : \E v \in FieldValues(f) : ModelWrite(f, v)
  \/ \E f \in Fields : Input(f)
  \/ \E f \in Fields : Blur(f)
  \/ InputUnknown
  \/ BlurUnknown
  \/ \E f \in Fields : \E v \in FieldValues(f) : SetFieldValue(f, v)
  \/ \E p \in PartialValueSets : SetFormValues(p)
  \/ \E f \in Fields : \E b \in BOOLEAN : SetFieldTouched(f, b)
  \/ Reset
  \/ \E cb \in BOOLEAN : Submit(cb)
  \/ RunTick
  \/ \E t \in BagToSet(inflight) : CompleteField(t)
  \/ \E t \in BagToSet(inflight) : CompleteDryRun(t)
  \/ \E t \in BagToSet(inflight) : CompleteMountDryRun(t)
  \/ \E t \in BagToSet(inflight) : CompleteForm(t)
  \/ \E t \in BagToSet(inflight) : CompleteSubmit(t)

Next ==
  \/ EventNext
  \/ \E f \in Fields : SetFieldError(f, ServerError)
  \/ SetFieldErrorUnknown(ServerError)
  \/ \E f \in Fields : ValidateField(f)
  \/ ValidateForm

Spec == Init /\ [][Next]_vars

\* the form driven by events, setters and submits only
EventSpec == Init /\ [][EventNext]_vars

\* typing only: v-model writes, input events and what they schedule
InputNext ==
  \/ \E f \in Fields : \E v \in FieldValues(f) : ModelWrite(f, v)
  \/ \E f \in Fields : Input(f)
  \/ RunTick
  \/ \E t \in BagToSet(inflight) : CompleteField(t)
  \/ \E t \in BagToSet(inflight) : CompleteDryRun(t)
  \/ \E t \in BagToSet(inflight) : CompleteMountDryRun(t)
  \/ \E t \in BagToSet(inflight) : CompleteForm(t)

InputSpec == Init /\ [][InputNext]_vars

(***************************************************************************)
(* useValidation                                                           *)
(*                                                                         *)
(* validate() runs clearErrors() and reads the data when it is called, and  *)
(* writes isValid and errors when its safeParseAsync resolves; calls in    *)
(* flight resolve in any order.  The deep watcher on the data, once        *)
(* created, queues one callback per flush, which calls validate().         *)
(***************************************************************************)
ValidationModes == {"eager", "lazy"}

\* the objects the data takes: the two fields of the form schema
DataValues ==
  {d \in [Fields -> UNION {FieldValues(f) : f \in Fields}] :
     \A f \in Fields : d[f] \in FieldValues(f)}

\* groupBy(result.error.issues, 'path')
GroupedIssues(d) == [isNull |-> FALSE, byPath |-> FieldErrors(d)]

\* result.success
ParseSuccess(d) == DOMAIN FieldErrors(d) = {}

\* the state when useValidation returns; the form is one that is never used
ValidationInit ==
  /\ optsMode \in ValidationModes
  /\ data \in DataValues
  /\ isValid = TRUE
  /\ validationErrors = NullErrors
  /\ unwatch = (optsMode = "eager")
  /\ watchJob = FALSE
  /\ validating = EmptyBag
  /\ validationCalls = 0
  /\ variant = "part" /\ mode = "submit" /\ modeAfterSubmit = "submit"
  /\ validateOnMount = FALSE /\ dryValidateOnMount = FALSE
  /\ initialValues \in InitialValueSets
  /\ values = SeedValues
  /\ fieldMeta = InitialMeta
  /\ errors = NoErrors
  /\ submitCount = 0
  /\ isSubmitting = FALSE
  /\ isValidating = FALSE
  /\ ticks = <<>>
  /\ inflight = EmptyBag
  /\ returned = [call |-> "none"]
  /\ outcomes = [onValid |-> 0, onInvalid |-> 0, none |-> 0]
  /\ callback = [fn |-> "none"]
  /\ lastCheck = [f \in Fields |-> "none"]
  /\ faults = 0
  /\ afterReset = FALSE
  /\ calls = 0

\* the data changes; a watcher that exists queues its callback
SetData(d) ==
  /\ validationCalls < MaxValidationCalls
  /\ d # data
  /\ data' = d
  /\ watchJob' = (watchJob \/ unwatch)
  /\ validationCalls' = validationCalls + 1
  /\ UNCHANGED <<formVars, optsMode, isValid, validationErrors, unwatch, validating>>

\* validate(), up to its await
Validate ==
  /\ validationCalls < MaxValidationCalls
  /\ validationErrors' = NullErrors
  /\ validating' = validating (+) SetToBag({data})
  /\ validationCalls' = validationCalls + 1
  /\ UNCHANGED <<formVars, optsMode, data, isValid, unwatch, watchJob>>

\* the queued watcher callback runs: validate(), up to its await
RunWatcher ==
  /\ watchJob
  /\ watchJob' = FALSE
  /\ validationErrors' = NullErrors
  /\ validating' = validating (+) SetToBag({data})
  /\ UNCHANGED <<formVars, optsMode, data, isValid, unwatch, validationCalls>>

\* validate() after its await, for the call that read d
CompleteValidate(d) ==
  /\ d \in BagToSet(validating)
  /\ isValid' = ParseSuccess(d)
  /\ validationErrors' = IF ParseSuccess(d) THEN validationErrors
                         ELSE GroupedIssues(d)
  /\ unwatch' = (unwatch \/ ~ParseSuccess(d))
  /\ validating' = validating (-) SetToBag({d})
  /\ UNCHANGED <<formVars, optsMode, data, watchJob, validationCalls>>

\* clearErrors()
ClearErrors ==
  /\ validationCalls < MaxValidationCalls
  /\ validationErrors' = NullErrors
  /\ validationCalls' = validationCalls + 1
  /\ UNCHANGED <<formVars, optsMode, data, isValid, unwatch, watchJob, validating>>

\* validate() calls, direct or by the watcher, and changes of the data
ValidateNext ==
  \/ \E d \in DataValues : SetData(d)
  \/ Validate
  \/ RunWatcher
  \/ \E d \in BagToSet(validating) : CompleteValidate(d)

ValidateSpec == ValidationInit /\ [][ValidateNext]_vars

\* the whole interface of useValidation
ValidationNext == ValidateNext \/ ClearErrors

ValidationSpec == ValidationInit /\ [][ValidationNext]_vars

\* the safeParseAsync a submit awaits resolves, and the callable resumes
Fairness == WF_vars(\E t \in BagToSet(inflight) : CompleteSubmit(t))

FairSpec == Spec /\ Fairness

(***************************************************************************)
(* Properties of the trigger policy                                        *)
(***************************************************************************)
Passes(t) == Issues(t.field, t.snap[t.field]) = <<>>

\* C1: once submitCount > 0, in every mode, an input event marks the field
\* dirty and schedules validateField exactly when modeAfterSubmit = "input",
\* a blur event marks it touched and schedules validateField exactly when
\* modeAfterSubmit = "blur"; nothing else is scheduled or started.
C1_PostSubmitOverride ==
  [][\A f \in Fields :
       /\ (isSubmitted /\ Input(f)) =>
            /\ fieldMeta'[f].dirty
            /\ ticks' = IF modeAfterSubmit = "input"
                        THEN Append(ticks, Tick("validate", f)) ELSE ticks
            /\ inflight' = inflight
       /\ (isSubmitted /\ Blur(f)) =>
            /\ fieldMeta'[f].touched
            /\ ticks' = IF modeAfterSubmit = "blur"
                        THEN Append(ticks, Tick("validate", f)) ELSE ticks
            /\ inflight' = inflight]_vars

\* an input after a submit has scheduled a validation in a mode whose
\* pre-submit table schedules none
C1_Witness ==
  /\ mode = "submit" /\ modeAfterSubmit = "input" /\ isSubmitted
  /\ \E f \in Fields : fieldMeta[f].dirty /\ ticks = <<Tick("validate", f)>>

\* C2 as stated: in eager mode before the first submit an input on an untouched
\* field marks it dirty and schedules only a dry run; a passing dry run sets
\* touched and schedules validateField; a failing one changes nothing.
C2_Original ==
  [][/\ \A f \in Fields :
          (mode = "eager" /\ ~isSubmitted /\ ~fieldMeta[f].touched /\ Input(f)) =>
            /\ fieldMeta'[f].dirty
            /\ ticks' = Append(ticks, Tick("dry", f))
     /\ \A t \in BagToSet(inflight) :
          CompleteDryRun(t) =>
            IF Passes(t)
            THEN /\ fieldMeta'[t.field].touched
                 /\ ticks' = Append(ticks, Tick("validate", t.field))
            ELSE /\ errors' = errors /\ fieldMeta' = fieldMeta /\ ticks' = ticks]_vars

\* C2 amended: the dry run is scheduled when the field is untouched and, in
\* form.ts, not yet validated (else validateField is scheduled); a passing dry
\* run sets touched and schedules validateField in part_001, and sets validated
\* (touched unchanged) and starts validateField at once in form.ts; a failing
\* dry run changes neither errors nor any flag and schedules nothing.
C2_EagerDryRun ==
  [][/\ \A f \in Fields :
          (mode = "eager" /\ ~isSubmitted /\ ~fieldMeta[f].touched /\ Input(f)) =>
            /\ fieldMeta'[f].dirty
            /\ ticks' = Append(ticks,
                 Tick(IF variant = "form" /\ fieldMeta[f].validated
                      THEN "validate" ELSE "dry", f))
            /\ inflight' = inflight
     /\ \A t \in BagToSet(inflight) :
          CompleteDryRun(t) =>
            IF Passes(t)
            THEN IF variant = "part"
                 THEN /\ fieldMeta' = [fieldMeta EXCEPT ![t.field].touched = TRUE]
                      /\ ticks' = Append(ticks, Tick("validate", t.field))
                      /\ inflight' = Finish(t)
                 ELSE /\ fieldMeta' = [fieldMeta EXCEPT ![t.field].validated = TRUE]
                      /\ ticks' = ticks
                      /\ inflight' = Finish(t) (+) SetToBag(
                           {Task("field", t.field, FieldSnap(t.field), FALSE)})
            ELSE /\ errors' = errors /\ fieldMeta' = fieldMeta /\ ticks' = ticks
                 /\ inflight' = Finish(t)]_vars

\* one input on an untouched field whose dry run passed: the field is touched
\* and its validateField is scheduled (part_001)
C2_Witness ==
  /\ variant = "part" /\ mode = "eager" /\ ~isSubmitted
  /\ ~validateOnMount /\ ~dryValidateOnMount /\ calls = 1
  /\ \E f \in Fields :
       /\ fieldMeta[f].dirty /\ fieldMeta[f].touched
       /\ ticks = <<Tick("validate", f)>>

\* C3: in smartLazy mode before the first submit an input marks the field dirty
\* and schedules validateField exactly when the field's invalid flag is true;
\* a completed validateField leaves invalid true iff the value failed, and a
\* passing one leaves errors[f] absent, so inputs stop re-validating.
C3_SmartLazyInput ==
  [][/\ \A f \in Fields :
          (mode = "smartLazy" /\ ~isSubmitted /\ Input(f)) =>
            /\ fieldMeta'[f].dirty
            /\ ticks' = IF fieldMeta[f].invalid
                        THEN Append(ticks, Tick("validate", f)) ELSE ticks
            /\ inflight' = inflight
     /\ \A t \in BagToSet(inflight) :
          CompleteField(t) =>
            /\ fieldMeta'[t.field].invalid = ~Passes(t)
            /\ Passes(t) => ErrorIn(errors', t.field) = Unset]_vars

\* the field failed on blur, and the next input re-validates it
C3_Witness ==
  /\ mode = "smartLazy" /\ ~isSubmitted
  /\ fieldMeta["name"].touched /\ fieldMeta["name"].invalid /\ fieldMeta["name"].dirty
  /\ ErrorOf("name") = "Required"
  /\ ticks = <<Tick("validate", "name")>>

\* C4: in touch mode before the first submit an input always marks the field
\* dirty and schedules validateField exactly when the field is touched; on an
\* untouched field nothing is scheduled and errors and invalid are unchanged.
C4_TouchInput ==
  [][\A f \in Fields :
       (mode = "touch" /\ ~isSubmitted /\ Input(f)) =>
         /\ fieldMeta'[f].dirty
         /\ ticks' = IF fieldMeta[f].touched
                     THEN Append(ticks, Tick("validate", f)) ELSE ticks
         /\ inflight' = inflight
         /\ errors' = errors
         /\ \A g \in Fields : fieldMeta'[g].invalid = fieldMeta[g].invalid]_vars

\* a blur, then an input on the touched field: two validations are scheduled
C4_Witness ==
  /\ mode = "touch" /\ ~isSubmitted /\ calls = 2
  /\ \E f \in Fields :
       /\ fieldMeta[f].touched /\ fieldMeta[f].dirty
       /\ ticks = <<Tick("validate", f), Tick("validate", f)>>

\* C5 as stated: in submit mode, before the first submit and with no
\* programmatic validateField, validateForm or setFieldError call, errors is
\* empty and no field is invalid.
C5_Original ==
  (mode = "submit" /\ ~isSubmitted) =>
     /\ errors = NoErrors
     /\ \A f \in Fields : ~fieldMeta[f].invalid

\* C5 amended: the same for a form constructed without validateOnMount; and
\* before the first submit an input in lazy or submit mode changes only the
\* field's dirty flag, a blur in submit mode only its touched flag.
C5_SubmitModeSilent ==
  /\ []((mode = "submit" /\ ~isSubmitted /\ ~validateOnMount) =>
          /\ errors = NoErrors
          /\ \A f \in Fields : ~fieldMeta[f].invalid)
  /\ [][\A f \in Fields :
          /\ (mode \in {"lazy", "submit"} /\ ~isSubmitted /\ Input(f)) =>
               /\ fieldMeta' = [fieldMeta EXCEPT ![f].dirty = TRUE]
               /\ UNCHANGED <<values, errors, ticks, inflight, submitCount>>
          /\ (mode = "submit" /\ ~isSubmitted /\ Blur(f)) =>
               /\ fieldMeta' = [fieldMeta EXCEPT ![f].touched = TRUE]
               /\ UNCHANGED <<values, errors, ticks, inflight, submitCount>>]_vars

\* submit mode, an input and a blur on one field, and still no error
C5_Witness ==
  /\ variant = "form" /\ mode = "submit" /\ ~isSubmitted /\ calls = 2
  /\ \E f \in Fields : fieldMeta[f].dirty /\ fieldMeta[f].touched
  /\ errors = NoErrors /\ ticks = <<>> /\ inflight = EmptyBag

C7_SubmittingWhileInFlight == SubmitsInFlight > 0 => isSubmitting

OutcomeCount == outcomes.onValid + outcomes.onInvalid + outcomes.none

FailingIn(snap) == {f \in Fields : Issues(f, snap[f]) # <<>>}

\* C8: every invocation of the submit callable ends, once its validateForm has
\* replaced errors and made every field touched, in exactly one outcome: onValid
\* with the current values iff the validated values passed, else onInvalid with
\* the per-field results if it was supplied, else no callback; and every
\* invocation eventually gets there (again and again every invocation made so
\* far has had its outcome).
C8_SubmitOutcome ==
  /\ [](OutcomeCount + SubmitsInFlight = submitCount)
  /\ [][/\ \A t \in BagToSet(inflight) :
             CompleteSubmit(t) =>
               /\ DOMAIN errors' = FailingIn(t.snap)
               /\ \A f \in Fields : fieldMeta'[f].touched
               /\ IF FailingIn(t.snap) = {}
                  THEN /\ outcomes' = [outcomes EXCEPT !.onValid = @ + 1]
                       /\ callback' = [fn |-> "onValid", arg |-> values']
                  ELSE IF t.cb
                  THEN /\ outcomes' = [outcomes EXCEPT !.onInvalid = @ + 1]
                       /\ callback' =
                            [fn |-> "onInvalid",
                             arg |-> [f \in Fields |->
                                        [errors |-> Issues(f, t.snap[f]),
                                         valid |-> f \notin FailingIn(t.snap)]]]
                  ELSE /\ outcomes' = [outcomes EXCEPT !.none = @ + 1]
                       /\ callback' = callback
        /\ (outcomes' # outcomes \/ callback' # callback) =>
             SubmitsInFlight' = SubmitsInFlight - 1]_vars
  /\ []<>(OutcomeCount = submitCount)

\* name was set to a passing value and the submit ended in onValid
C8_Witness ==
  /\ submitCount = 1 /\ SubmitsInFlight = 0
  /\ outcomes = [onValid |-> 1, onInvalid |-> 0, none |-> 0]
  /\ callback = [fn |-> "onValid", arg |-> [name |-> "bob", age |-> "24"]]
  /\ errors = NoErrors
  /\ \A f \in Fields : fieldMeta[f].touched

\* C9: submitCount is the number of invocations of the submit callable: each
\* invocation, and nothing else, adds one to it, whether or not another submit
\* is in flight; nothing lowers it, so isSubmitted stays true.
C9_SubmitCount ==
  /\ [](submitCount = OutcomeCount + SubmitsInFlight)
  /\ [][/\ (SubmitsInFlight' > SubmitsInFlight) =>
             /\ SubmitsInFlight' = SubmitsInFlight + 1
             /\ submitCount' = submitCount + 1
        /\ (SubmitsInFlight' <= SubmitsInFlight) => submitCount' = submitCount
        /\ isSubmitted => isSubmitted']_vars

\* a second submit was counted while the first was in flight
C9_Witness == submitCount = 2 /\ SubmitsInFlight = 2

C12_InvalidTracksValidation ==
  [][\A t \in BagToSet(inflight) :
       /\ CompleteField(t) => fieldMeta'[t.field].invalid = ~Passes(t)
       /\ (CompleteForm(t) \/ CompleteSubmit(t)) =>
            \A f \in Fields : fieldMeta'[f].invalid = (f \in FailingIn(t.snap))]_vars

\* C13: a dry run, from an eager input or at construction, never changes
\* errors; when the probed value fails no FieldMeta flag changes either, and
\* when it passes the only flags that change are those its caller sets on the
\* probed field on a true result (touched in part_001, with invalid = false at
\* construction; validated in form.ts).
C13_DryRunPure ==
  /\ [](\A t \in Pending("dry") \cup Pending("mountdry") :
          ValidateFieldDryRun(t) =
            [valid |-> Passes(t), errors |-> errors, fieldMeta |-> fieldMeta])
  /\ [][\A t \in BagToSet(inflight) :
       (CompleteDryRun(t) \/ CompleteMountDryRun(t)) =>
         /\ errors' = errors
         /\ returned' = returned
         /\ \A g \in Fields \ {t.field} : fieldMeta'[g] = fieldMeta[g]
         /\ IF Passes(t)
            THEN /\ fieldMeta'[t.field].dirty = fieldMeta[t.field].dirty
                 /\ IF variant = "part"
                    THEN /\ fieldMeta'[t.field].touched
                         /\ fieldMeta'[t.field].validated = fieldMeta[t.field].validated
                         /\ fieldMeta'[t.field].invalid =
                              (t.kind = "dry" /\ fieldMeta[t.field].invalid)
                    ELSE /\ fieldMeta'[t.field].validated
                         /\ fieldMeta'[t.field].touched = fieldMeta[t.field].touched
                         /\ fieldMeta'[t.field].invalid = fieldMeta[t.field].invalid
            ELSE fieldMeta' = fieldMeta]_vars

\* eager mode, one input on name, which is undefined: its dry run has failed
\* and left no trace but the dirty flag the input set
C13_Witness ==
  /\ variant = "part" /\ mode = "eager" /\ ~validateOnMount /\ ~dryValidateOnMount
  /\ calls = 1 /\ values = SeedValues
  /\ fieldMeta = [InitialMeta EXCEPT !["name"].dirty = TRUE]
  /\ errors = NoErrors /\ ticks = <<>> /\ inflight = EmptyBag

\* C14: reset restores the seed values, empties errors and sets every field's
\* FieldMeta back to all-false.
C14_ResetRestores ==
  [][Reset => /\ values' = SeedValues
              /\ errors' = NoErrors
              /\ fieldMeta' = InitialMeta]_vars

Flagged(k) == {f \in Fields : fieldMeta[f][k]}

C20_NoStaleError ==
  \A f \in Fields : (lastCheck[f] = "passed") => ErrorOf(f) = Unset

\* age carried an injected error, then validateField("age") passed on 24: the
\* entry is gone
C20_Witness ==
  /\ calls = 2 /\ submitCount = 0 /\ values = SeedValues
  /\ lastCheck = [name |-> "none", age |-> "passed"]
  /\ returned = [call |-> "validateField", field |-> "age",
                 result |-> [valid |-> TRUE]]
  /\ "age" \in DOMAIN errors /\ errors["age"] = Unset
  /\ ~fieldMeta["age"].touched /\ ~fieldMeta["age"].dirty

(***************************************************************************)
(* Properties of construction                                              *)
(***************************************************************************)
\* construction issues a dry run per field
DryOnMount ==
  \/ variant = "part" /\ dryValidateOnMount /\ ~validateOnMount
  \/ variant = "form" /\ mode = "eager"

\* f is pre-armed and nothing else about it has changed
PreArmed(f) ==
  fieldMeta[f] = IF variant = "part"
                 THEN [InitialMeta[f] EXCEPT !.touched = TRUE]
                 ELSE [InitialMeta[f] EXCEPT !.validated = TRUE]

\* C21: until the first event or call, a form constructed with
\* dryValidateOnMount and without validateOnMount (part_001), or in eager mode
\* (form.ts), has exactly one dry run per field in flight or completed, and
\* errors is empty; a field whose seed value passes is pre-armed exactly when its
\* dry run has completed (touched in part_001, validated in form.ts) and a
\* field whose seed value fails keeps every flag false.  With validateOnMount
\* set, validateForm runs exactly once and no dry run is issued; with neither,
\* nothing runs.
C21_MountDryRun ==
  (calls = 0) =>
     /\ DryOnMount =>
          /\ errors = NoErrors
          /\ \A t \in BagToSet(inflight) :
               /\ t.kind = "mountdry" /\ CopiesIn(t, inflight) = 1
               /\ t.snap[t.field] = SeedValues[t.field]
          /\ \A f \in Fields :
               LET pending == \E t \in Pending("mountdry") : t.field = f
               IN  IF Issues(f, SeedValues[f]) = <<>>
                   THEN IF pending THEN fieldMeta[f] = InitialMeta[f]
                        ELSE PreArmed(f)
                   ELSE fieldMeta[f] = InitialMeta[f]
     /\ (variant = "part" /\ validateOnMount) =>
          /\ Pending("mountdry") = {}
          /\ IF returned.call = "validateForm"
             THEN inflight = EmptyBag
             ELSE inflight = SetToBag({Task("form", NoField, SeedValues, FALSE)})
     /\ (~DryOnMount /\ ~validateOnMount) =>
          inflight = EmptyBag /\ fieldMeta = InitialMeta /\ errors = NoErrors

\* part_001 with dryValidateOnMount only: both dry runs are done, age (24) is
\* touched, name (undefined) has every flag false, and there is no error
C21_Witness ==
  /\ variant = "part" /\ dryValidateOnMount /\ ~validateOnMount /\ calls = 0
  /\ inflight = EmptyBag
  /\ fieldMeta = [InitialMeta EXCEPT !["age"].touched = TRUE]
  /\ errors = NoErrors

(***************************************************************************)
(* Properties of validateForm and setFieldError                            *)
(***************************************************************************)
\* what a validateForm of snapshot snap resolves with, as the claims put it
ExpectedResults(snap) ==
  [f \in Fields |-> [errors |-> Issues(f, snap[f]),
                     valid |-> Issues(f, snap[f]) = <<>>]]

\* the state is the one a completed validateForm() of snapshot snap leaves
\* when the values have not changed since it was called
JustValidated(snap) ==
  /\ snap = values
  /\ returned.call = "validateForm"
  /\ returned.result.results = ExpectedResults(snap)
  /\ errors = [f \in FailingIn(snap) |-> Issues(f, snap[f])[1]]
  /\ \A f \in Fields :
       fieldMeta[f].touched /\ (variant = "form" => fieldMeta[f].validated)

\* C22: a validateForm() that completes in the state an earlier validateForm()
\* of the same, unchanged values left changes nothing: errors, the result it
\* resolves with and every FieldMeta are the same after the second as after
\* the first.
C22_ValidateFormIdempotent ==
  [][\A t \in BagToSet(inflight) :
       (CompleteForm(t) /\ JustValidated(t.snap)) =>
          /\ errors' = errors
          /\ returned' = returned
          /\ fieldMeta' = fieldMeta]_vars

\* validate() called twice on the seed values, both completed (a state the
\* two calls in succession lead to)
C22_Witness ==
  /\ ~validateOnMount /\ calls = 2 /\ submitCount = 0
  /\ JustValidated(SeedValues)
  /\ \A f \in Fields : ~fieldMeta[f].dirty /\ ~fieldMeta[f].invalid
  /\ ticks = <<>> /\ inflight = EmptyBag

\* C23: the results validateForm() resolves with have one entry per schema
\* field, {errors: [], valid: true} for a field without issues and the whole
\* ordered issue list with valid = false for a field with issues; the valid flag
\* is true iff every entry is valid; and errors[f] is the first element of
\* results[f].errors for each failing field.
C23_ValidateFormResults ==
  [][\A t \in BagToSet(inflight) :
       (CompleteForm(t) \/ CompleteSubmit(t)) =>
          /\ returned'.call = "validateForm"
          /\ DOMAIN returned'.result.results = Fields
          /\ \A f \in Fields :
               LET r == returned'.result.results[f]
               IN  /\ r.errors = Issues(f, t.snap[f])
                   /\ r.valid = (Len(r.errors) = 0)
                   /\ ~r.valid => (f \in DOMAIN errors' /\ errors'[f] = r.errors[1])
          /\ returned'.result.valid =
               (\A f \in Fields : returned'.result.results[f].valid)]_vars

\* validate() has completed with name = "", which has two issues, and age = 24
C23_Witness ==
  /\ values = [name |-> "", age |-> "24"]
  /\ returned = [call |-> "validateForm",
                 result |-> [valid |-> FALSE,
                             results |-> [name |-> [errors |-> <<"Min1", "Min3">>,
                                                    valid |-> FALSE],
                                          age |-> [errors |-> <<>>, valid |-> TRUE]]]]
  /\ errors = [f \in {"name"} |-> "Min1"]

\* C24: setFieldError(f, m) sets errors[f] to m and changes nothing else: no
\* flag, no value, no other field's error, and no validation is scheduled or
\* started; and an injected error leaves errors[f] only when a validateField(f)
\* or a validateForm completes or reset is called.
C24_SetFieldError ==
  [][\A f \in Fields :
       /\ SetFieldError(f, ServerError) =>
            /\ ErrorIn(errors', f) = ServerError
            /\ \A g \in Fields \ {f} : ErrorIn(errors', g) = ErrorIn(errors, g)
            /\ UNCHANGED <<values, fieldMeta, submitCount, ticks, inflight>>
       /\ (ErrorOf(f) = ServerError /\ ErrorIn(errors', f) # ServerError) =>
            \/ Reset
            \/ \E t \in BagToSet(inflight) :
                 \/ CompleteField(t) /\ t.field = f
                 \/ CompleteForm(t)
                 \/ CompleteSubmit(t)]_vars

\* an error injected on age, whose value 24 passes and whose flags are all false
C24_Witness ==
  /\ calls = 1 /\ values = SeedValues
  /\ errors = [f \in {"age"} |-> ServerError]
  /\ fieldMeta["age"] = InitialMeta["age"]
  /\ lastCheck["age"] = "injected"
  /\ ticks = <<>> /\ inflight = EmptyBag

(***************************************************************************)
(* Unknown field names                                                     *)
(***************************************************************************)
\* C25: an input, a blur or a setFieldError that names a field the schema does
\* not have throws, and leaves values, errors, FieldMeta and submitCount as
\* they were.
C25_UnknownFieldFaults ==
  [][(InputUnknown \/ BlurUnknown \/ SetFieldErrorUnknown(ServerError)) =>
        /\ faults' = faults + 1
        /\ UNCHANGED <<values, errors, fieldMeta, submitCount>>]_vars

(***************************************************************************)
(* Properties of overlapping validations                                   *)
(***************************************************************************)
\* validation t covers field f
Covers(t, f) ==
  \/ t.kind = "field" /\ t.field = f
  \/ t.kind \in {"form", "submit"}

\* another validation covering f is in flight beside t
Racing(t, f) ==
  \E u \in BagToSet(inflight) :
     Covers(u, f) /\ (u # t \/ CopiesIn(t, inflight) > 1)

\* C26: when a validation covering f completes while another one covering f is
\* in flight, errors[f] and invalid[f] become what the completing one found on
\* the value it read, so that the one completing last decides both.
C26_LastCompletionWins ==
  [][\A t \in BagToSet(inflight) : \A f \in Fields :
       ((CompleteField(t) \/ CompleteForm(t) \/ CompleteSubmit(t))
          /\ Covers(t, f) /\ Racing(t, f)) =>
            /\ ErrorIn(errors', f) = IF Issues(f, t.snap[f]) = <<>> THEN Unset
                                     ELSE Issues(f, t.snap[f])[1]
            /\ fieldMeta'[f].invalid = (Issues(f, t.snap[f]) # <<>>)]_vars

\* C27: the deferred task an input or blur scheduled carries no value; when it
\* starts it reads the field's value of that moment, and that value is the one
\* its validation or dry run checks.
C27_ValidatesValueAtRun ==
  /\ [](\A i \in 1..Len(ticks) : DOMAIN ticks[i] = {"kind", "field"})
  /\ [][RunTick =>
          \E k \in {"field", "dry"} :
             inflight' = inflight (+) SetToBag(
                {Task(k, Head(ticks).field,
                      [g \in Fields |-> IF g = Head(ticks).field
                                        THEN values[g] ELSE Unset],
                      FALSE)})]_vars

\* aggressive: an input on name and a write of "bob" to it; the validation in
\* flight is of "bob", not of the undefined the field started with
C27_Witness ==
  /\ mode = "aggressive" /\ ~validateOnMount /\ calls = 2
  /\ values["name"] = "bob" /\ fieldMeta["name"].dirty
  /\ ticks = <<>>
  /\ inflight = SetToBag({Task("field", "name",
                               [name |-> "bob", age |-> Unset], FALSE)})

C30_ResetFinal ==
  [][/\ Reset => (errors' = NoErrors /\ values' = SeedValues)
     /\ (afterReset /\ afterReset') =>
           (errors' = errors /\ values' = values /\ fieldMeta' = fieldMeta)]_vars

(***************************************************************************)
(* Properties of useValidation                                             *)
(***************************************************************************)
\* C31: whenever no validate() call is in flight, isValid is true iff errors
\* is null, under any interleaving of validate() calls, direct or fired by the
\* data watcher.
C31_ValidIffNoErrors ==
  (validating = EmptyBag) => (isValid <=> validationErrors = NullErrors)

====
